---- MODULE Spec2Model ----
(***************************************************************************)
(* Model of the message-delivery core of src/src/App.tsx: the pending      *)
(* ledger with its retry timers and ack callbacks (sendMessageWithRetry,   *)
(* handleMessageFailure, sendMessage), the dedup filter on the two inbound *)
(* paths (handleReceiveMessage, handleSyncMessages), the connection        *)
(* lifecycle handlers and the effect cleanup.                              *)
(***************************************************************************)
EXTENDS Integers, Sequences, FiniteSets, TLC

\* ---------------------------------------------------------------- bounds
\* number of non-blank submissions the user makes over the session
MaxSends == 2
\* number of distinct message ids the relay delivers inbound
NumIds == 2
\* longest sync_messages batch
MaxBatch == 2
\* numbers of positive and of negative acknowledgments the relay gives over
\* the session; the other emits are never answered
MaxOks == 1
MaxNacks == 1

\* ------------------------------------------------------ program constants
MAX_RETRIES == 3

MY_USER_ID == "me"

\* ------------------------------------------------------------------ state
VARIABLES
    pendingMessages,     \* Map id -> PendingMessage (ledger)
    emitted,             \* per message id, the log of socket.emit('send_message', ...)
                         \* calls; entry i also carries the two closures created
                         \* with that call: its ack callback and its setTimeout timer
    failedLog,           \* id -> number of console.error "failed after" reports
    messages,            \* visible timeline (useState<Message[]>)
    receivedMessageIds,  \* dedup Set
    isConnected,         \* useState(socket.connected)
    socketConnected,     \* socket.connected, as the transport last reported it
    mounted,             \* TRUE until the effect cleanup has run
    nextId,              \* stands for the fresh `${Date.now()}-${random}` ids
    delivered,           \* history: per id, whether the relay has delivered it
                         \* inbound "never", "once" or "repeatedly"
    oks,                 \* number of ack callbacks invoked with success so far
    nacks                \* number of ack callbacks invoked without success so far

vars == <<pendingMessages, emitted, failedLog, messages, receivedMessageIds,
          isConnected, socketConnected, mounted, nextId, delivered, oks, nacks>>

\* ------------------------------------------------------------------ values
SPACE == " "

\* contents of the input box at submit time
Texts == {<<>>, <<SPACE>>, <<SPACE, "a">>}

Message(id, senderId, text) == [id |-> id, senderId |-> senderId, text |-> text]

\* what the relay can deliver, live or in a replay batch
InboundMessages == {Message(i, "peer", <<"a">>) : i \in 1..NumIds}

RECURSIVE SeqsUpTo(_, _)
SeqsUpTo(S, n) ==
    IF n = 0 THEN {<<>>}
    ELSE LET shorter == SeqsUpTo(S, n - 1)
         IN  shorter \cup {Append(s, x) : s \in {q \in shorter : Len(q) = n - 1}, x \in S}

Batches == SeqsUpTo(InboundMessages, MaxBatch)

\* String.prototype.trim on a sequence of characters
RECURSIVE TrimLeft(_)
TrimLeft(s) ==
    IF s = <<>> THEN <<>>
    ELSE IF Head(s) = SPACE THEN TrimLeft(Tail(s)) ELSE s

RECURSIVE TrimRight(_)
TrimRight(s) ==
    IF s = <<>> THEN <<>>
    ELSE IF s[Len(s)] = SPACE THEN TrimRight(SubSeq(s, 1, Len(s) - 1)) ELSE s

Trim(s) == TrimRight(TrimLeft(s))

\* ----------------------------------------------------------------- helpers
\* Map.delete
MapDelete(m, k) == [x \in (DOMAIN m) \ {k} |-> m[x]]

\* Map.set
MapSet(m, k, v) == [x \in (DOMAIN m) \cup {k} |-> IF x = k THEN v ELSE m[x]]

\* clearTimeout(handle): an armed timer is cancelled, anything else is untouched
ClearTimeout(em, h) ==
    IF em[h.id][h.n].timer = "armed"
    THEN [em EXCEPT ![h.id][h.n].timer = "off"]
    ELSE em

\* the three pieces of state the send path works on
SendState(pm, em, fl) == [pendingMessages |-> pm, emitted |-> em, failedLog |-> fl]

\* sendMessageWithRetry without lines 133-137: the entry is never stored
SendMessageWithRetry_NoEntry(st, msgData, retryCount) ==
    SendState(st.pendingMessages,
              [st.emitted EXCEPT ![msgData.id] =
                   Append(@, [msgData |-> msgData, retryCount |-> retryCount,
                              timer |-> "armed", ack |-> "waiting"])],
              st.failedLog)

\* sendMessageWithRetry(msgData, retryCount): emit with an ack callback, arm
\* the deadline timer, store the entry with that timer
SendMessageWithRetry(st, msgData, retryCount) ==
    LET id == msgData.id
        em == [st.emitted EXCEPT ![id] =
                   Append(@, [msgData |-> msgData, retryCount |-> retryCount,
                              timer |-> "armed", ack |-> "waiting"])]
        timeout == [id |-> id, n |-> Len(em[id])]
    IN  SendState(MapSet(st.pendingMessages, msgData.id,
                         [msgData |-> msgData, retryCount |-> retryCount,
                          timeout |-> timeout]),
                  em, st.failedLog)

\* handleMessageFailure with `retryCount <= MAX_RETRIES` at line 149
HandleMessageFailure_OffByOne(st, msgData, retryCount) ==
    LET id == msgData.id
        cleared == IF id \in DOMAIN st.pendingMessages
                   THEN ClearTimeout(st.emitted, st.pendingMessages[id].timeout)
                   ELSE st.emitted
        st1 == SendState(st.pendingMessages, cleared, st.failedLog)
    IN  IF retryCount <= MAX_RETRIES
        THEN SendMessageWithRetry(st1, msgData, retryCount + 1)
        ELSE SendState(MapDelete(st.pendingMessages, id), cleared,
                       [st.failedLog EXCEPT ![id] = @ + 1])

\* handleMessageFailure without the console.error of line 155
HandleMessageFailure_Silent(st, msgData, retryCount) ==
    LET id == msgData.id
        cleared == IF id \in DOMAIN st.pendingMessages
                   THEN ClearTimeout(st.emitted, st.pendingMessages[id].timeout)
                   ELSE st.emitted
        st1 == SendState(st.pendingMessages, cleared, st.failedLog)
    IN  IF retryCount < MAX_RETRIES
        THEN SendMessageWithRetry(st1, msgData, retryCount + 1)
        ELSE SendState(MapDelete(st.pendingMessages, id), cleared, st.failedLog)

\* handleMessageFailure without the delete of line 156
HandleMessageFailure_KeepEntry(st, msgData, retryCount) ==
    LET id == msgData.id
        cleared == IF id \in DOMAIN st.pendingMessages
                   THEN ClearTimeout(st.emitted, st.pendingMessages[id].timeout)
                   ELSE st.emitted
        st1 == SendState(st.pendingMessages, cleared, st.failedLog)
    IN  IF retryCount < MAX_RETRIES
        THEN SendMessageWithRetry(st1, msgData, retryCount + 1)
        ELSE SendState(st.pendingMessages, cleared,
                       [st.failedLog EXCEPT ![id] = @ + 1])

\* handleMessageFailure passing `retryCount` instead of `retryCount + 1` at
\* line 152
HandleMessageFailure_NoIncrement(st, msgData, retryCount) ==
    LET id == msgData.id
        cleared == IF id \in DOMAIN st.pendingMessages
                   THEN ClearTimeout(st.emitted, st.pendingMessages[id].timeout)
                   ELSE st.emitted
        st1 == SendState(st.pendingMessages, cleared, st.failedLog)
    IN  IF retryCount < MAX_RETRIES
        THEN SendMessageWithRetry(st1, msgData, retryCount)
        ELSE SendState(MapDelete(st.pendingMessages, id), cleared,
                       [st.failedLog EXCEPT ![id] = @ + 1])

\* handleMessageFailure(msgData, retryCount)
HandleMessageFailure(st, msgData, retryCount) ==
    LET id == msgData.id
        cleared == IF id \in DOMAIN st.pendingMessages
                   THEN ClearTimeout(st.emitted, st.pendingMessages[id].timeout)
                   ELSE st.emitted
        st1 == SendState(st.pendingMessages, cleared, st.failedLog)
    IN  IF retryCount < MAX_RETRIES
        THEN SendMessageWithRetry(st1, msgData, retryCount + 1)
        ELSE SendState(MapDelete(st.pendingMessages, id), cleared,
                       [st.failedLog EXCEPT ![id] = @ + 1])

Current == SendState(pendingMessages, emitted, failedLog)

Install(st) ==
    /\ pendingMessages' = st.pendingMessages
    /\ emitted' = st.emitted
    /\ failedLog' = st.failedLog

\* ------------------------------------------------------------------- Init
Init ==
    /\ pendingMessages = <<>>
    /\ emitted = [i \in 1..MaxSends |-> <<>>]
    /\ failedLog = [i \in 1..MaxSends |-> 0]
    /\ messages = <<>>
    /\ receivedMessageIds = {}
    /\ socketConnected \in BOOLEAN
    /\ isConnected = socketConnected
    /\ mounted = TRUE
    /\ nextId = 1
    /\ delivered = [i \in 1..NumIds |-> "never"]
    /\ oks = 0
    /\ nacks = 0

\* ---------------------------------------------------------------- actions
\* the form without the disabled attributes of lines 385 and 387
FormEnabled_Always == mounted

\* the form controls are disabled={!isConnected}
FormEnabled == mounted /\ isConnected

\* sendMessage testing `message` instead of `message.trim()` at line 168
sendMessage_NoTrim(text) ==
    /\ FormEnabled
    /\ nextId <= MaxSends
    /\ IF text # <<>>
       THEN /\ Install(SendMessageWithRetry(Current,
                           Message(nextId, MY_USER_ID, text), 0))
            /\ nextId' = nextId + 1
       ELSE UNCHANGED <<pendingMessages, emitted, failedLog, nextId>>
    /\ UNCHANGED <<messages, receivedMessageIds, isConnected, socketConnected,
                   mounted, delivered, oks, nacks>>

\* sendMessage that also appends the new message to the timeline
sendMessage_Optimistic(text) ==
    /\ FormEnabled
    /\ nextId <= MaxSends
    /\ IF Trim(text) # <<>>
       THEN /\ Install(SendMessageWithRetry(Current,
                           Message(nextId, MY_USER_ID, text), 0))
            /\ nextId' = nextId + 1
            /\ messages' = Append(messages, Message(nextId, MY_USER_ID, text))
       ELSE UNCHANGED <<pendingMessages, emitted, failedLog, nextId, messages>>
    /\ UNCHANGED <<receivedMessageIds, isConnected, socketConnected,
                   mounted, delivered, oks, nacks>>

\* sendMessage: submit of the form with `text` in the input box
sendMessage(text) ==
    /\ FormEnabled
    /\ nextId <= MaxSends
    /\ IF Trim(text) # <<>>
       THEN /\ Install(SendMessageWithRetry(Current,
                           Message(nextId, MY_USER_ID, text), 0))
            /\ nextId' = nextId + 1
       ELSE UNCHANGED <<pendingMessages, emitted, failedLog, nextId>>
    /\ UNCHANGED <<messages, receivedMessageIds, isConnected, socketConnected,
                   mounted, delivered, oks, nacks>>

\* the ack callback of emit i is invoked with {success: true}
AckSuccess(id, i) ==
    /\ emitted[id][i].ack = "waiting"
    /\ oks < MaxOks
    /\ oks' = oks + 1
    /\ pendingMessages' = MapDelete(pendingMessages, emitted[id][i].msgData.id)
    /\ emitted' = [emitted EXCEPT ![id][i].ack = "success"]
    /\ UNCHANGED <<failedLog, messages, receivedMessageIds, isConnected,
                   socketConnected, mounted, nextId, delivered, nacks>>


\* the ack callback of emit i is invoked with a falsy or unsuccessful response
AckFailure(id, i) ==
    /\ emitted[id][i].ack = "waiting"
    /\ nacks < MaxNacks
    /\ nacks' = nacks + 1
    /\ Install(HandleMessageFailure(
                   SendState(pendingMessages,
                             [emitted EXCEPT ![id][i].ack = "failure"], failedLog),
                   emitted[id][i].msgData, emitted[id][i].retryCount))
    /\ UNCHANGED <<messages, receivedMessageIds, isConnected, socketConnected,
                   mounted, nextId, delivered, oks>>

\* the setTimeout callback without the has() test of line 126
TimerFire_NoCheck(id, i) ==
    /\ i \in DOMAIN emitted[id]
    /\ emitted[id][i].timer = "armed"
    /\ Install(HandleMessageFailure(
                   SendState(pendingMessages,
                             [emitted EXCEPT ![id][i].timer = "off"], failedLog),
                   emitted[id][i].msgData, emitted[id][i].retryCount))
    /\ UNCHANGED <<messages, receivedMessageIds, isConnected, socketConnected,
                   mounted, nextId, delivered, oks, nacks>>

\* the setTimeout callback of emit i runs
TimerFire(id, i) ==
    /\ i \in DOMAIN emitted[id]
    /\ emitted[id][i].timer = "armed"
    /\ LET fired == [emitted EXCEPT ![id][i].timer = "off"]
       IN  IF emitted[id][i].msgData.id \in DOMAIN pendingMessages
           THEN Install(HandleMessageFailure(
                            SendState(pendingMessages, fired, failedLog),
                            emitted[id][i].msgData, emitted[id][i].retryCount))
           ELSE /\ emitted' = fired
                /\ UNCHANGED <<pendingMessages, failedLog>>
    /\ UNCHANGED <<messages, receivedMessageIds, isConnected, socketConnected,
                   mounted, nextId, delivered, oks, nacks>>

handleConnect ==
    /\ mounted
    /\ socketConnected' = TRUE
    /\ isConnected' = TRUE
    /\ UNCHANGED <<pendingMessages, emitted, failedLog, messages,
                   receivedMessageIds, mounted, nextId, delivered, oks, nacks>>

\* handleDisconnect that also empties the ledger
handleDisconnect_DropsLedger ==
    /\ mounted
    /\ socketConnected' = FALSE
    /\ isConnected' = FALSE
    /\ pendingMessages' = <<>>
    /\ UNCHANGED <<emitted, failedLog, messages, receivedMessageIds, mounted,
                   nextId, delivered, oks, nacks>>

handleDisconnect ==
    /\ mounted
    /\ socketConnected' = FALSE
    /\ isConnected' = FALSE
    /\ UNCHANGED <<pendingMessages, emitted, failedLog, messages,
                   receivedMessageIds, mounted, nextId, delivered, oks, nacks>>

\* handleReconnectAttempt that also calls setIsConnected(false)
handleReconnectAttempt_SetsDisconnected ==
    /\ mounted
    /\ isConnected' = FALSE
    /\ UNCHANGED <<pendingMessages, emitted, failedLog, messages, receivedMessageIds,
                   socketConnected, mounted, nextId, delivered, oks, nacks>>

handleReconnectAttempt ==
    /\ mounted
    /\ UNCHANGED vars

\* handleReconnect that also empties the dedup set
handleReconnect_ClearsDedup ==
    /\ mounted
    /\ socketConnected' = TRUE
    /\ isConnected' = TRUE
    /\ receivedMessageIds' = {}
    /\ UNCHANGED <<pendingMessages, emitted, failedLog, messages, mounted, nextId,
                   delivered, oks, nacks>>

\* handleReconnect without the setIsConnected(true) of line 202
handleReconnect_NoSet ==
    /\ mounted
    /\ socketConnected' = TRUE
    /\ UNCHANGED <<pendingMessages, emitted, failedLog, messages, receivedMessageIds,
                   isConnected, mounted, nextId, delivered, oks, nacks>>

handleReconnect ==
    /\ mounted
    /\ socketConnected' = TRUE
    /\ isConnected' = TRUE
    /\ UNCHANGED <<pendingMessages, emitted, failedLog, messages,
                   receivedMessageIds, mounted, nextId, delivered, oks, nacks>>

\* history of the inbound deliveries
Deliver(d, id) == [d EXCEPT ![id] = IF @ = "never" THEN "once" ELSE "repeatedly"]

RECURSIVE DeliverAll(_, _)
DeliverAll(d, batch) ==
    IF batch = <<>> THEN d ELSE DeliverAll(Deliver(d, Head(batch).id), Tail(batch))

\* syncedMessages.filter(...) with its side effect on the dedup set
RECURSIVE SyncFilter(_, _)
SyncFilter(batch, seen) ==
    IF batch = <<>> THEN [newMessages |-> <<>>, seen |-> seen]
    ELSE LET msg == Head(batch)
             admit == msg.id \notin seen
             rest == SyncFilter(Tail(batch), IF admit THEN seen \cup {msg.id} ELSE seen)
         IN  [newMessages |-> IF admit THEN <<msg>> \o rest.newMessages
                              ELSE rest.newMessages,
              seen |-> rest.seen]

\* handleSyncMessages with `[...newMessages, ...prev]` at line 217
handleSyncMessages_Prepend(syncedMessages) ==
    /\ mounted
    /\ LET f == SyncFilter(syncedMessages, receivedMessageIds)
       IN  /\ receivedMessageIds' = f.seen
           /\ messages' = IF Len(f.newMessages) > 0
                          THEN f.newMessages \o messages
                          ELSE messages
    /\ delivered' = DeliverAll(delivered, syncedMessages)
    /\ UNCHANGED <<pendingMessages, emitted, failedLog, isConnected, socketConnected,
                   mounted, nextId, oks, nacks>>

handleSyncMessages(syncedMessages) ==
    /\ mounted
    /\ LET f == SyncFilter(syncedMessages, receivedMessageIds)
       IN  /\ receivedMessageIds' = f.seen
           /\ messages' = IF Len(f.newMessages) > 0
                          THEN messages \o f.newMessages
                          ELSE messages
    /\ delivered' = DeliverAll(delivered, syncedMessages)
    /\ UNCHANGED <<pendingMessages, emitted, failedLog, isConnected, socketConnected,
                   mounted, nextId, oks, nacks>>

\* handleReceiveMessage without the has() test of line 222
handleReceiveMessage_NoCheck(data) ==
    /\ mounted
    /\ receivedMessageIds' = receivedMessageIds \cup {data.id}
    /\ messages' = Append(messages, data)
    /\ delivered' = Deliver(delivered, data.id)
    /\ UNCHANGED <<pendingMessages, emitted, failedLog, isConnected, socketConnected,
                   mounted, nextId, oks, nacks>>

\* handleReceiveMessage without the add of line 223
handleReceiveMessage_NoRecord(data) ==
    /\ mounted
    /\ IF data.id \notin receivedMessageIds
       THEN /\ messages' = Append(messages, data)
            /\ UNCHANGED receivedMessageIds
       ELSE UNCHANGED <<receivedMessageIds, messages>>
    /\ delivered' = Deliver(delivered, data.id)
    /\ UNCHANGED <<pendingMessages, emitted, failedLog, isConnected, socketConnected,
                   mounted, nextId, oks, nacks>>

handleReceiveMessage(data) ==
    /\ mounted
    /\ IF data.id \notin receivedMessageIds
       THEN /\ receivedMessageIds' = receivedMessageIds \cup {data.id}
            /\ messages' = Append(messages, data)
       ELSE UNCHANGED <<receivedMessageIds, messages>>
    /\ delivered' = Deliver(delivered, data.id)
    /\ UNCHANGED <<pendingMessages, emitted, failedLog, isConnected, socketConnected,
                   mounted, nextId, oks, nacks>>

\* the cleanup returned by the main effect: listeners off, timers of the
\* entries in the ledger cleared
RECURSIVE ClearAll(_, _)
ClearAll(em, hs) ==
    IF hs = {} THEN em
    ELSE LET h == CHOOSE x \in hs : TRUE
         IN  ClearAll(ClearTimeout(em, h), hs \ {h})

Cleanup ==
    /\ mounted
    /\ mounted' = FALSE
    /\ emitted' = ClearAll(emitted,
                           {pendingMessages[k].timeout : k \in DOMAIN pendingMessages})
    /\ UNCHANGED <<pendingMessages, failedLog, messages, receivedMessageIds,
                   isConnected, socketConnected, nextId, delivered, oks, nacks>>

Next ==
    \/ \E text \in Texts : sendMessage(text)
    \/ \E id \in DOMAIN emitted : \E i \in DOMAIN emitted[id] : AckSuccess(id, i)
    \/ \E id \in DOMAIN emitted : \E i \in DOMAIN emitted[id] : AckFailure(id, i)
    \/ \E id \in DOMAIN emitted : \E i \in DOMAIN emitted[id] : TimerFire(id, i)
    \/ handleConnect
    \/ handleDisconnect
    \/ handleReconnectAttempt
    \/ handleReconnect
    \/ \E batch \in Batches : handleSyncMessages(batch)
    \/ \E data \in InboundMessages : handleReceiveMessage(data)
    \/ Cleanup

Spec == Init /\ [][Next]_vars

\* The mounted session seen from the ledger: submissions, acks, deadline
\* timers and lifecycle events.  Every setTimeout callback of a mounted page
\* eventually runs unless it is cleared first.
LiveNext ==
    \/ \E text \in Texts : sendMessage(text)
    \/ \E id \in DOMAIN emitted : \E i \in DOMAIN emitted[id] : AckSuccess(id, i)
    \/ \E id \in DOMAIN emitted : \E i \in DOMAIN emitted[id] : AckFailure(id, i)
    \/ \E id \in DOMAIN emitted : \E i \in DOMAIN emitted[id] : TimerFire(id, i)
    \/ handleConnect
    \/ handleDisconnect
    \/ handleReconnect

SomeTimerFires == \E id \in DOMAIN emitted : \E i \in DOMAIN emitted[id] : TimerFire(id, i)

LiveSpec == Init /\ [][LiveNext]_vars /\ WF_vars(SomeTimerFires)

\* ------------------------------------------------------------ observations
SentIds == 1..MaxSends

InLedger(id) == id \in DOMAIN pendingMessages

\* number of transmissions of id so far
NumTx(id) == Len(emitted[id])

\* some ack callback of id has been invoked with success
SuccessAcked(id) == \E i \in DOMAIN emitted[id] : emitted[id][i].ack = "success"

\* no ack callback of id has been invoked
NoAckYet(id) == \A i \in DOMAIN emitted[id] : emitted[id][i].ack = "waiting"

ArmedTimers(id) == {i \in DOMAIN emitted[id] : emitted[id][i].timer = "armed"}

\* this step invokes an ack callback of id (with the given outcome)
AckStep(id, outcome) ==
    \E i \in DOMAIN emitted[id] :
        /\ emitted[id][i].ack = "waiting"
        /\ emitted'[id][i].ack = outcome

Copies(id) == {k \in DOMAIN messages : messages[k].id = id}

\* ------------------------------------------------------------------ claims

\* C1: whatever the sequence of receive_message events and sync_messages
\* batches, the timeline holds exactly one message for every id delivered at
\* least once and none for the others.
C1_OneCopyPerDeliveredId ==
    \A id \in 1..NumIds :
        Cardinality(Copies(id)) = IF delivered[id] = "never" THEN 0 ELSE 1

C1_Witness ==
    /\ \A id \in 1..NumIds : delivered[id] = "repeatedly"
    /\ Len(messages) = NumIds

\* C2: once a success acknowledgment of id has been processed, id is absent
\* from the ledger and is never transmitted again.
C2_AckedNeverResent ==
    [][\A id \in SentIds :
          /\ SuccessAcked(id)' => ~InLedger(id)'
          /\ SuccessAcked(id) => NumTx(id)' = NumTx(id)]_vars

\* C3: a submitted message none of whose ack callbacks is ever invoked is
\* transmitted once per deadline elapse, MAX_RETRIES + 1 times in all, then
\* leaves the ledger with exactly one terminal-failure report.
C3_Inv ==
    \A id \in SentIds :
        (NumTx(id) > 0 /\ NoAckYet(id)) =>
            IF InLedger(id)
            THEN /\ NumTx(id) = pendingMessages[id].retryCount + 1
                 /\ NumTx(id) <= MAX_RETRIES + 1
                 /\ ArmedTimers(id) = {NumTx(id)}
                 /\ failedLog[id] = 0
            ELSE /\ NumTx(id) = MAX_RETRIES + 1
                 /\ ArmedTimers(id) = {}
                 /\ failedLog[id] = 1

C3_NoAckExhaustsRetries ==
    /\ []C3_Inv
    /\ \A id \in SentIds :
           (NumTx(id) > 0 /\ NoAckYet(id)) ~> (~NoAckYet(id) \/ ~InLedger(id))

C3_Witness ==
    \E id \in SentIds :
        /\ NoAckYet(id)
        /\ NumTx(id) = MAX_RETRIES + 1
        /\ ~InLedger(id)
        /\ failedLog[id] = 1

\* C4: an acknowledgment, positive or negative, for an id that is not in the
\* ledger changes nothing: no entry, no transmission, no failure report.
C4_LateAckIgnored ==
    [][\A id \in SentIds :
          (~InLedger(id) /\ (AckStep(id, "success") \/ AckStep(id, "failure"))) =>
              /\ pendingMessages' = pendingMessages
              /\ NumTx(id)' = NumTx(id)
              /\ failedLog' = failedLog]_vars

\* C5: the step that makes the connection state Connected transmits every
\* entry of the ledger again.
C5_ResendOnConnect ==
    [][(~isConnected /\ isConnected') =>
          \A id \in DOMAIN pendingMessages : NumTx(id)' = NumTx(id) + 1]_vars

\* C6: a submission with non-blank text adds exactly one ledger entry, for a
\* fresh id, with retryCount 0 and an armed deadline timer, and makes exactly
\* one transmission of that message, whose ack callback is waiting.
C6_SubmitOneEntryOneTransmission ==
    [][nextId' # nextId =>
          LET id == nextId IN
          /\ ~InLedger(id)
          /\ NumTx(id) = 0
          /\ DOMAIN pendingMessages' = DOMAIN pendingMessages \cup {id}
          /\ \A k \in DOMAIN pendingMessages : pendingMessages'[k] = pendingMessages[k]
          /\ pendingMessages'[id].retryCount = 0
          /\ pendingMessages'[id].msgData.id = id
          /\ pendingMessages'[id].msgData.senderId = MY_USER_ID
          /\ pendingMessages'[id].timeout = [id |-> id, n |-> 1]
          /\ emitted'[id] = <<[msgData |-> pendingMessages'[id].msgData,
                               retryCount |-> 0, timer |-> "armed", ack |-> "waiting"]>>
          /\ \A k \in SentIds \ {id} : emitted'[k] = emitted[k]]_vars

C6_Witness ==
    /\ nextId = MaxSends + 1
    /\ \A id \in SentIds :
           /\ InLedger(id)
           /\ pendingMessages[id].retryCount = 0
           /\ NumTx(id) = 1
           /\ ArmedTimers(id) = {1}

\* C7: no deadline timer is armed for an id that is not in the ledger.
C7_NoTimerWithoutEntry ==
    \A id \in SentIds : ArmedTimers(id) # {} => InLedger(id)

\* C8: an id is transmitted at most MAX_RETRIES + 1 times over the session.
C8_BoundedTransmissions ==
    \A id \in SentIds : NumTx(id) <= MAX_RETRIES + 1

\* C9: a step that removes an entry from the ledger either processes a success
\* acknowledgment of that id or reports the terminal failure of that id.
C9_NoSilentDrop ==
    [][\A id \in SentIds :
          (InLedger(id) /\ ~InLedger(id)') =>
              \/ AckStep(id, "success")
              \/ failedLog'[id] = failedLog[id] + 1]_vars

C9_Witness ==
    \E id \in SentIds : ~InLedger(id) /\ failedLog[id] = 1 /\ ~SuccessAcked(id)

\* C10: while the page stays mounted and its timers run, the ledger eventually
\* becomes empty and stays empty, whatever acks the relay gives.
C10_LedgerDrains == <>[](DOMAIN pendingMessages = {})

C10_Witness ==
    /\ nextId = MaxSends + 1
    /\ DOMAIN pendingMessages = {}
    /\ \E id \in SentIds : failedLog[id] > 0
    /\ \E id \in SentIds : SuccessAcked(id)

\* C11: a sync_messages batch appends to the timeline exactly its messages
\* whose id was not seen before (the first copy of each), in batch order; the
\* old timeline stays as a prefix.
FirstNew(batch, seen) ==
    {k \in DOMAIN batch :
        /\ batch[k].id \notin seen
        /\ \A j \in 1..(k - 1) : batch[j].id # batch[k].id}

RECURSIVE Pick(_, _, _)
Pick(batch, ks, k) ==
    IF k > Len(batch) THEN <<>>
    ELSE (IF k \in ks THEN <<batch[k]>> ELSE <<>>) \o Pick(batch, ks, k + 1)

C11_BatchAppendsAdmittedInOrder ==
    [][\A batch \in Batches :
          handleSyncMessages(batch) =>
              messages' = messages \o Pick(batch, FirstNew(batch, receivedMessageIds), 1)]_vars

C11_Witness ==
    /\ NumIds >= 2
    /\ delivered[1] = "once"
    /\ delivered[2] = "repeatedly"
    /\ Len(messages) = 2
    /\ messages[1].id = 2
    /\ messages[2].id = 1

\* C12: no message is created (no ledger entry, no transmission) by a step
\* taken while the connectivity state is not connected.
C12_NoSendWhileDisconnected ==
    [][~isConnected =>
          /\ nextId' = nextId
          /\ \A id \in SentIds : NumTx(id) = 0 => (NumTx(id)' = 0 /\ ~InLedger(id)')]_vars

C12_Witness ==
    /\ mounted
    /\ ~isConnected
    /\ nextId = 2
    /\ InLedger(1)

\* C13: while the connectivity state is not connected, a step that processes
\* no acknowledgment leaves the ledger alone: no retransmission, no change of
\* a retryCount, no entry abandoned.
C13_LedgerFrozenWhileDisconnected ==
    [][(~isConnected /\ ~isConnected' /\ oks' = oks /\ nacks' = nacks) =>
          /\ pendingMessages' = pendingMessages
          /\ \A id \in SentIds : NumTx(id)' = NumTx(id)
          /\ failedLog' = failedLog]_vars

\* C14: while the page is mounted the connectivity state equals what the
\* transport reported last, by a connect, reconnect or disconnect event or,
\* before any of them, at construction.
C14_ConnectivityFollowsTransport == mounted => (isConnected = socketConnected)

C14_Witness ==
    /\ mounted
    /\ ~isConnected
    /\ ~socketConnected
    /\ nextId = MaxSends + 1

\* C15: the step that makes the connection state Connected issues a
\* client-to-relay request.  The only socket.emit of the source is the
\* send_message of sendMessageWithRetry, so every request is in the emit log.
ClientToRelay == emitted

C15_ResyncRequestedOnConnect ==
    [][(~isConnected /\ isConnected') => ClientToRelay' # ClientToRelay]_vars

\* C16: the retry path run for an attempt with retry count k, on its negative
\* ack or on its deadline with the id in the ledger: for k < MAX_RETRIES the
\* entry then has retryCount k + 1 and a newly armed timer, and the same
\* message is transmitted once more; for k = MAX_RETRIES the entry is gone and
\* nothing is transmitted.
RetryPost(id, msgData, k) ==
    IF k < MAX_RETRIES
    THEN /\ InLedger(id)'
         /\ pendingMessages'[id].retryCount = k + 1
         /\ pendingMessages'[id].msgData = msgData
         /\ NumTx(id)' = NumTx(id) + 1
         /\ pendingMessages'[id].timeout = [id |-> id, n |-> NumTx(id)']
         /\ emitted'[id][NumTx(id)'] =
                [msgData |-> msgData, retryCount |-> k + 1,
                 timer |-> "armed", ack |-> "waiting"]
    ELSE /\ ~InLedger(id)'
         /\ NumTx(id)' = NumTx(id)

C16_RetryPath ==
    [][\A id \in SentIds : \A i \in DOMAIN emitted[id] :
          /\ AckFailure(id, i) =>
                 RetryPost(id, emitted[id][i].msgData, emitted[id][i].retryCount)
          /\ (TimerFire(id, i) /\ InLedger(id)) =>
                 RetryPost(id, emitted[id][i].msgData, emitted[id][i].retryCount)]_vars

C16_Witness ==
    \E id \in SentIds :
        /\ InLedger(id)
        /\ pendingMessages[id].retryCount = 2
        /\ NumTx(id) = 3
        /\ emitted[id][1].ack = "failure"

\* C17: while an id stays in the ledger its retryCount never decreases and
\* changes only by one.
C17_RetryCountMonotone ==
    [][\A id \in SentIds :
          (InLedger(id) /\ InLedger(id)') =>
              \/ pendingMessages'[id].retryCount = pendingMessages[id].retryCount
              \/ pendingMessages'[id].retryCount = pendingMessages[id].retryCount + 1]_vars

\* C18: the ledger holds one entry per id, filed under the id of its message,
\* and every retryCount lies in 0..MAX_RETRIES.
C18_LedgerWellFormed ==
    /\ DOMAIN pendingMessages \subseteq SentIds
    /\ \A id \in DOMAIN pendingMessages :
           /\ pendingMessages[id].msgData.id = id
           /\ pendingMessages[id].retryCount \in 0..MAX_RETRIES

C18_Witness ==
    /\ DOMAIN pendingMessages = SentIds
    /\ \E id \in SentIds : pendingMessages[id].retryCount = MAX_RETRIES
    /\ \E id \in SentIds : pendingMessages[id].retryCount = 0

\* C19: an id is admitted and recorded the first time it is delivered and
\* rejected afterwards; a receive_message or a batch of ids already seen
\* changes neither the dedup set, nor the timeline, nor the ledger.
C19_DedupAdmitsOnce ==
    [][/\ \A data \in InboundMessages :
              handleReceiveMessage(data) =>
                  IF data.id \in receivedMessageIds
                  THEN UNCHANGED <<receivedMessageIds, messages, pendingMessages,
                                   emitted, failedLog>>
                  ELSE /\ receivedMessageIds' = receivedMessageIds \cup {data.id}
                       /\ messages' = Append(messages, data)
       /\ \A batch \in Batches :
              (/\ handleSyncMessages(batch)
               /\ \A k \in DOMAIN batch : batch[k].id \in receivedMessageIds) =>
                  UNCHANGED <<receivedMessageIds, messages, pendingMessages,
                              emitted, failedLog>>]_vars

C19_Witness ==
    /\ delivered[1] = "repeatedly"
    /\ receivedMessageIds = {1}
    /\ Len(messages) = 1
    /\ DOMAIN pendingMessages # {}

\* C20: no step removes an id from the dedup set.
C20_DedupSetGrows == [][receivedMessageIds \subseteq receivedMessageIds']_vars

C20_Witness ==
    /\ receivedMessageIds = 1..NumIds
    /\ \A id \in 1..NumIds : delivered[id] = "repeatedly"
    /\ ~isConnected
    /\ nextId > 1

\* C21: a disconnect event and a reconnect-attempt event leave the ledger, the
\* timers, the emit log, the failure reports, the dedup set and the timeline
\* unchanged; a reconnect-attempt event also leaves unchanged whether the form
\* accepts a send.
C21_LifecycleEventsKeepDeliverableState ==
    [][/\ handleDisconnect =>
              UNCHANGED <<pendingMessages, emitted, failedLog, messages,
                          receivedMessageIds>>
       /\ handleReconnectAttempt =>
              /\ UNCHANGED <<pendingMessages, emitted, failedLog, messages,
                             receivedMessageIds>>
              /\ FormEnabled' = FormEnabled]_vars

C21_Witness ==
    /\ mounted
    /\ ~isConnected
    /\ \E id \in SentIds : InLedger(id) /\ ArmedTimers(id) # {}
                           /\ pendingMessages[id].retryCount > 0
    /\ receivedMessageIds # {}
    /\ Len(messages) > 0

\* C22: the terminal failure of an id is reported at most once.
C22_FailureSignalledOnce == \A id \in SentIds : failedLog[id] <= 1

\* C23: once a success acknowledgment of id has been processed, no terminal
\* failure of id is reported.
C23_NoFailureAfterSuccess ==
    [][\A id \in SentIds : SuccessAcked(id) => failedLog'[id] = failedLog[id]]_vars

\* C24: a deadline timer that fires while its id is not in the ledger only
\* expires: no transmission, no failure report, ledger, other timers, dedup set
\* and timeline unchanged.
C24_OrphanTimerDoesNothing ==
    [][\A id \in SentIds : \A i \in DOMAIN emitted[id] :
          (TimerFire(id, i) /\ ~InLedger(id)) =>
              /\ emitted' = [emitted EXCEPT ![id][i].timer = "off"]
              /\ UNCHANGED <<pendingMessages, failedLog, messages,
                             receivedMessageIds>>]_vars

C24_Witness ==
    /\ mounted
    /\ \E id \in SentIds :
           /\ NumTx(id) = 1
           /\ emitted[id][1].ack = "success"
           /\ emitted[id][1].timer = "off"
           /\ ~InLedger(id)
           /\ failedLog[id] = 0

\* C25: the dedup set is the set of ids of the timeline, and every recorded
\* id has exactly one message there.
C25_DedupSetIsTimelineIds ==
    /\ receivedMessageIds = {messages[k].id : k \in DOMAIN messages}
    /\ \A id \in receivedMessageIds : Cardinality(Copies(id)) = 1

C25_Witness ==
    /\ NumIds >= 2
    /\ receivedMessageIds = {2}
    /\ Len(messages) = 1
    /\ messages[1].id = 2
    /\ delivered[2] = "repeatedly"

\* C26: a step of the send path (a transmission, a change of the ledger, an
\* acknowledgment processed, a failure reported) leaves the timeline and the
\* dedup set unchanged.
C26_SendPathKeepsTimeline ==
    [][(\/ emitted' # emitted
        \/ pendingMessages' # pendingMessages
        \/ failedLog' # failedLog
        \/ nextId' # nextId) =>
           UNCHANGED <<messages, receivedMessageIds>>]_vars

C26_Witness ==
    /\ messages = <<>>
    /\ receivedMessageIds = {}
    /\ \E id \in SentIds : SuccessAcked(id)
    /\ \E id \in SentIds : failedLog[id] > 0 /\ ~SuccessAcked(id)

\* C27: after the effect cleanup has run nothing is transmitted.
C27_NoTransmissionAfterTeardown ==
    [][~mounted => \A id \in SentIds : NumTx(id)' = NumTx(id)]_vars

\* C28: a submit whose text is empty or only spaces changes nothing, and no
\* message with such a text is ever in the ledger or transmitted.
Blank(text) == \A k \in DOMAIN text : text[k] = SPACE

NoBlankMessage ==
    /\ \A id \in DOMAIN pendingMessages : ~Blank(pendingMessages[id].msgData.text)
    /\ \A id \in SentIds : \A i \in DOMAIN emitted[id] :
           ~Blank(emitted[id][i].msgData.text)

C28_BlankSubmitCreatesNothing ==
    /\ []NoBlankMessage
    /\ [][\A text \in Texts :
             (sendMessage(text) /\ Blank(text)) => UNCHANGED vars]_vars

C28_Witness ==
    /\ FormEnabled
    /\ nextId = 2
    /\ NumTx(1) = 1
    /\ ~Blank(emitted[1][1].msgData.text)
    /\ NumTx(2) = 0
    /\ messages = <<>>

====
